---- MODULE Spec2Model ----
(***************************************************************************)
(* The brightness endpoint of backend/server.py: analyze_brightness.       *)
(*                                                                         *)
(* One invocation of the handler is a process with a program counter; its  *)
(* local variables live in an activation record (frame).  Several          *)
(* invocations may be in flight at once and their statements interleave.   *)
(*                                                                         *)
(* Numbers.  The handler computes in floating point; the model computes    *)
(* the same expressions exactly, on rationals <<n, d>> kept in lowest      *)
(* terms with d > 0.                                                       *)
(*                                                                         *)
(* Pixels.  A pixel list is kept run-length encoded: a run <<p, k>> stands *)
(* for k consecutive samples equal to p.  len() of the list is the sum of  *)
(* the k's, and k turns of the summation loop add k times the luminance    *)
(* of p.                                                                   *)
(*                                                                         *)
(* Uploads.  The uploaded bytes are identified with what the decoder makes *)
(* of them: either nothing (not an image) or a mode, a size and the pixel  *)
(* values.                                                                 *)
(***************************************************************************)
EXTENDS Integers, Sequences, FiniteSets

VARIABLES pc, request, frame, result, logged

vars == <<pc, request, frame, result, logged>>

(* ------------------------------ bounds ------------------------------- *)

\* Longest explicit pixel list among the uploads of Spec.
MaxRuns == 2

\* Resolution of the luminance sweep of SpecSweep: steps of 1/LumDen.
LumDen == 4

(* ---------------------------- invocations ---------------------------- *)

Requests == {"a", "b"}

\* Each invocation's locals live in an activation record of its own.
FrameShared(r) == "a"

Frame(r) == r

(* ------------------------- exact arithmetic -------------------------- *)

Abs(x) == IF x < 0 THEN -x ELSE x

RECURSIVE GCD(_, _)
GCD(a, b) == IF b = 0 THEN a ELSE GCD(b, a % b)

\* n/d in lowest terms, d > 0.
Norm(n, d) ==
    LET s == IF d < 0 THEN -1 ELSE 1
        g == GCD(Abs(n), Abs(d))
    IN  <<(s * n) \div g, (s * d) \div g>>

R(n) == <<n, 1>>

RAdd(x, y) == Norm(x[1] * y[2] + y[1] * x[2], x[2] * y[2])

RSub(x, y) == Norm(x[1] * y[2] - y[1] * x[2], x[2] * y[2])

\* Cross-cancelled first, so that the products stay small.
RMul(x, y) ==
    LET g1 == GCD(Abs(x[1]), y[2])
        g2 == GCD(Abs(y[1]), x[2])
    IN  Norm((x[1] \div g1) * (y[1] \div g2), (x[2] \div g2) * (y[2] \div g1))

\* y /= 0; the callers raise ZeroDivisionError before dividing by zero.
RDiv(x, y) == RMul(x, Norm(y[2], y[1]))

RLt(x, y) == x[1] * y[2] < y[1] * x[2]

RLe(x, y) == x[1] * y[2] <= y[1] * x[2]

\* round(x, 2) cut short: the digits after the second are dropped.
Round2Truncates(x) ==
    LET h == RMul(x, R(100)) IN Norm(h[1] \div h[2], 100)

\* round(x, 2): the nearest multiple of 1/100, a tie going to the even one.
Round2(x) ==
    LET h   == RMul(x, R(100))
        fl  == h[1] \div h[2]
        rem == h[1] - fl * h[2]
        q   == IF 2 * rem < h[2] THEN fl
               ELSE IF 2 * rem > h[2] THEN fl + 1
               ELSE IF fl % 2 = 0 THEN fl ELSE fl + 1
    IN  Norm(q, 100)

(* ------------------------------ uploads ------------------------------ *)

Corrupt == [valid |-> FALSE, mode |-> "", size |-> <<0, 0>>, data |-> <<>>]

Img(mode, size, data) ==
    [valid |-> TRUE, mode |-> mode, size |-> size, data |-> data]

\* k samples p, as a run-length encoded list.
Runs(p, k) == IF k = 0 THEN <<>> ELSE << <<p, k>> >>

Uniform(mode, size, p) == Img(mode, size, Runs(p, size[1] * size[2]))

ThumbSize == <<200, 200>>

Black == <<0, 0, 0>>
White == <<255, 255, 255>>
Gray(v) == <<v, v, v>>

Palette == {Black, White, <<255, 0, 0>>}

\* Sizes around the thumbnail bound, empty grids included.
Dims ==
    { <<0, 0>>, <<0, 3>>, <<1, 1>>, ThumbSize,
      <<ThumbSize[1] + 1, 100>>, <<2 * ThumbSize[1], 2 * ThumbSize[2]>>,
      <<1000, 3>>, <<3, 1000>>, <<2 * ThumbSize[1], 0>> }

\* A w x 1 image with the pixels listed one by one.
Listed(s) == Img("RGB", <<Len(s), 1>>, [i \in 1..Len(s) |-> <<s[i], 1>>])

Inputs ==
    {Corrupt}
    \cup {Uniform("RGB", d, Gray(128)) : d \in Dims}
    \cup UNION {{Listed(s) : s \in [1..n -> Palette]} : n \in 1..MaxRuns}
    \cup {Uniform("L", <<1, 1>>, <<128>>),
          Uniform("RGBA", <<1, 1>>, <<255, 0, 0, 0>>)}

\* The luminance sweep: j white samples among 255 * LumDen, the rest black,
\* average j / LumDen.
SweepSize == <<85, 3 * LumDen>>

SweepCount == SweepSize[1] * SweepSize[2]

Mix(j) == Img("RGB", SweepSize, Runs(White, j) \o Runs(Black, SweepCount - j))

SweepInputs ==
    {Corrupt, Uniform("RGB", <<0, 0>>, Black)}
    \cup {Mix(j) : j \in 0..SweepCount}
    \cup {Uniform("RGB", <<2, 2>>, Gray(v)) : v \in 0..255}

(* ----------------------------- the state ----------------------------- *)

NoImage == [mode |-> "", size |-> <<0, 0>>, data |-> <<>>]

NoExc == [type |-> "", msg |-> ""]

Exc(type, msg) == [type |-> type, msg |-> msg]

\* The locals of an invocation before any is assigned.
FreshFrame ==
    [contents |-> Corrupt, image |-> NoImage, pixels |-> <<>>,
     total_luminance |-> R(0), avg_luminance |-> R(0), ev |-> R(0),
     e |-> NoExc]

NoResult == [kind |-> "none"]

NoLog == <<"">>

Init ==
    /\ pc = [r \in Requests |-> "idle"]
    /\ request = [r \in Requests |-> Corrupt]
    /\ frame = [r \in Requests |-> FreshFrame]
    /\ result = [r \in Requests |-> NoResult]
    /\ logged = [r \in Requests |-> NoLog]

Local(r) == frame[Frame(r)]

Goto(r, l) == pc' = [pc EXCEPT ![r] = l]

(* ------------------------- try / except ------------------------------ *)

\* An exception that leaves the handler instead of reaching its except clause.
RaiseUncaught(r, e) ==
    /\ Goto(r, "uncaught")
    /\ UNCHANGED <<request, frame, result, logged>>

\* An exception raised by a statement of the try block: control passes to
\* the except clause with the exception bound to e.
Raise(r, e) ==
    /\ Goto(r, "except")
    /\ frame' = [frame EXCEPT ![Frame(r)].e = e]
    /\ UNCHANGED <<request, result, logged>>

(* ------------------------------ Pillow ------------------------------- *)

\* Image.convert('RGB'): a gray sample becomes three equal channels, the
\* alpha channel of an RGBA sample is dropped.
ConvertPixel(mode, p) ==
    CASE mode = "L" -> <<p[1], p[1], p[1]>>
      [] mode = "RGBA" -> <<p[1], p[2], p[3]>>
      [] OTHER -> p

ConvertRGB(im) ==
    [mode |-> "RGB", size |-> im.size,
     data |-> [i \in 1..Len(im.data) |->
                  <<ConvertPixel(im.mode, im.data[i][1]), im.data[i][2]>>]]

Max(a, b) == IF a >= b THEN a ELSE b

\* Image.thumbnail returns at once when the image fits the requested size.
NeedsResize(size) == ~(ThumbSize[1] >= size[1] /\ ThumbSize[2] >= size[2])

\* Image.thumbnail's preserve_aspect_ratio, for a size that does not fit
\* and has a height: the side that binds keeps the requested length, the
\* other is floor or ceil of the scaled length, whichever is nearer the
\* aspect ratio, and never below 1.
ThumbnailSize(size) ==
    LET w == size[1]
        h == size[2]
        x == ThumbSize[1]
        y == ThumbSize[2]
    IN  IF x * h >= w * y
        THEN LET t    == y * w
                 fl   == t \div h
                 ce   == IF t % h = 0 THEN fl ELSE fl + 1
                 pick == IF Abs(w * y - fl * h) <= Abs(w * y - ce * h)
                         THEN fl ELSE ce
             IN  <<Max(pick, 1), y>>
        ELSE LET t    == x * h
                 fl   == t \div w
                 ce   == IF t % w = 0 THEN fl ELSE fl + 1
                 pick == IF fl = 0 THEN fl
                         ELSE IF Abs(w * fl - x * h) * ce
                                   <= Abs(w * ce - x * h) * fl
                              THEN fl ELSE ce
             IN  <<x, Max(pick, 1)>>

\* Image.resize of a grid of one colour: the grid of the new size in that
\* colour (the filter's weights sum to one).  Every upload that does not
\* fit ThumbSize is of one colour.
Resize(im, size) ==
    [mode |-> im.mode, size |-> size,
     data |-> Runs(im.data[1][1], size[1] * size[2])]

\* The thumbnail call left out: the image keeps its size.
DownsampleSkipped(im) == im

\* image.thumbnail((200, 200)) on an image it does not fail on.
Downsample(im) ==
    IF ~NeedsResize(im.size) THEN im
    ELSE LET s == ThumbnailSize(im.size)
         IN  IF s = im.size THEN im ELSE Resize(im, s)

\* aspect = width / height divides by a zero height.
ThumbnailRaises(im) == NeedsResize(im.size) /\ im.size[2] = 0

(* --------------------------- the pipeline ---------------------------- *)

\* len(pixels)
RECURSIVE Count(_)
Count(runs) ==
    IF runs = <<>> THEN 0 ELSE runs[1][2] + Count(Tail(runs))

\* The middle weight mistyped.
LuminanceTypo(p) ==
    RAdd(RAdd(RMul(<<299, 1000>>, R(p[1])), RMul(<<687, 1000>>, R(p[2]))),
         RMul(<<114, 1000>>, R(p[3])))

\* luminance = 0.299 * r + 0.587 * g + 0.114 * b
Luminance(p) ==
    RAdd(RAdd(RMul(<<299, 1000>>, R(p[1])), RMul(<<587, 1000>>, R(p[2]))),
         RMul(<<114, 1000>>, R(p[3])))

\* The for loop: total_luminance += luminance, once per sample.
RECURSIVE Accumulate(_, _)
Accumulate(runs, total) ==
    IF runs = <<>> THEN total
    ELSE Accumulate(Tail(runs),
                    RAdd(total, RMul(R(runs[1][2]), Luminance(runs[1][1]))))

\* for r, g, b in pixels: a sample that is not a triple cannot be unpacked.
Unpackable(runs) == \A i \in 1..Len(runs) : Len(runs[i][1]) = 3

\* The if / elif chain with each < read as <=.
SegmentInclusive(L) ==
    IF RLe(L, R(30)) THEN 1
    ELSE IF RLe(L, R(60)) THEN 2
    ELSE IF RLe(L, R(120)) THEN 3
    ELSE IF RLe(L, R(180)) THEN 4
    ELSE 5

\* The branch of the if / elif chain that avg_luminance L takes.
Segment(L) ==
    IF RLt(L, R(30)) THEN 1
    ELSE IF RLt(L, R(60)) THEN 2
    ELSE IF RLt(L, R(120)) THEN 3
    ELSE IF RLt(L, R(180)) THEN 4
    ELSE 5

\* The third branch dividing by 30, as the second does.
SegmentFormulaCopied(s, L) ==
    CASE s = 1 -> RAdd(R(2), RMul(RDiv(L, R(30)), R(4)))
      [] s = 2 -> RAdd(R(6), RMul(RDiv(RSub(L, R(30)), R(30)), R(3)))
      [] s = 3 -> RAdd(R(9), RMul(RDiv(RSub(L, R(60)), R(30)), R(3)))
      [] s = 4 -> RAdd(R(12), RMul(RDiv(RSub(L, R(120)), R(60)), R(2)))
      [] s = 5 -> RAdd(R(14), RMul(RDiv(RSub(L, R(180)), R(75)), R(3)))

\* The last branch dividing by 60, as the two before it do.
SegmentFormulaSpan(s, L) ==
    CASE s = 1 -> RAdd(R(2), RMul(RDiv(L, R(30)), R(4)))
      [] s = 2 -> RAdd(R(6), RMul(RDiv(RSub(L, R(30)), R(30)), R(3)))
      [] s = 3 -> RAdd(R(9), RMul(RDiv(RSub(L, R(60)), R(60)), R(3)))
      [] s = 4 -> RAdd(R(12), RMul(RDiv(RSub(L, R(120)), R(60)), R(2)))
      [] s = 5 -> RAdd(R(14), RMul(RDiv(RSub(L, R(180)), R(60)), R(3)))

\* The assignment to ev in branch s.
SegmentFormula(s, L) ==
    CASE s = 1 -> RAdd(R(2), RMul(RDiv(L, R(30)), R(4)))
      [] s = 2 -> RAdd(R(6), RMul(RDiv(RSub(L, R(30)), R(30)), R(3)))
      [] s = 3 -> RAdd(R(9), RMul(RDiv(RSub(L, R(60)), R(60)), R(3)))
      [] s = 4 -> RAdd(R(12), RMul(RDiv(RSub(L, R(120)), R(60)), R(2)))
      [] s = 5 -> RAdd(R(14), RMul(RDiv(RSub(L, R(180)), R(75)), R(3)))

EVMapper(L) == SegmentFormula(Segment(L), L)

(* ----------------------------- actions ------------------------------- *)

\* A client uploads b: the handler is entered with file = b.
Call(r, uploads) ==
    /\ pc[r] = "idle"
    /\ \E b \in uploads : request' = [request EXCEPT ![r] = b]
    /\ Goto(r, "read")
    /\ UNCHANGED <<frame, result, logged>>

\* contents = await file.read()
Read(r) ==
    /\ pc[r] = "read"
    /\ frame' = [frame EXCEPT ![Frame(r)].contents = request[r]]
    /\ Goto(r, "open")
    /\ UNCHANGED <<request, result, logged>>

\* image = Image.open(io.BytesIO(contents))
Open(r) ==
    /\ pc[r] = "open"
    /\ LET c == Local(r).contents
       IN  IF ~c.valid
           THEN Raise(r, Exc("UnidentifiedImageError",
                             "cannot identify image file"))
           ELSE /\ frame' = [frame EXCEPT ![Frame(r)].image =
                                [mode |-> c.mode, size |-> c.size,
                                 data |-> c.data]]
                /\ Goto(r, "convert")
                /\ UNCHANGED <<request, result, logged>>

\* if image.mode != 'RGB': image = image.convert('RGB')
Convert(r) ==
    /\ pc[r] = "convert"
    /\ LET im == Local(r).image
       IN  frame' = [frame EXCEPT ![Frame(r)].image =
                        IF im.mode # "RGB" THEN ConvertRGB(im) ELSE im]
    /\ Goto(r, "thumbnail")
    /\ UNCHANGED <<request, result, logged>>

\* image.thumbnail((200, 200))
Thumbnail(r) ==
    /\ pc[r] = "thumbnail"
    /\ LET im == Local(r).image
       IN  IF ThumbnailRaises(im)
           THEN Raise(r, Exc("ZeroDivisionError", "division by zero"))
           ELSE /\ frame' = [frame EXCEPT ![Frame(r)].image = Downsample(im)]
                /\ Goto(r, "getdata")
                /\ UNCHANGED <<request, result, logged>>

\* pixels = list(image.getdata())
GetData(r) ==
    /\ pc[r] = "getdata"
    /\ frame' = [frame EXCEPT ![Frame(r)].pixels = Local(r).image.data]
    /\ Goto(r, "init")
    /\ UNCHANGED <<request, result, logged>>

\* total_luminance = 0
InitTotal(r) ==
    /\ pc[r] = "init"
    /\ frame' = [frame EXCEPT ![Frame(r)].total_luminance = R(0)]
    /\ Goto(r, "loop")
    /\ UNCHANGED <<request, result, logged>>

\* for r, g, b in pixels: ...
Loop(r) ==
    /\ pc[r] = "loop"
    /\ LET f == Local(r)
       IN  IF ~Unpackable(f.pixels)
           THEN Raise(r, Exc("ValueError", "not enough values to unpack"))
           ELSE /\ frame' = [frame EXCEPT ![Frame(r)].total_luminance =
                                Accumulate(f.pixels, f.total_luminance)]
                /\ Goto(r, "divide")
                /\ UNCHANGED <<request, result, logged>>

\* avg_luminance = total_luminance / len(pixels)
Divide(r) ==
    /\ pc[r] = "divide"
    /\ LET f == Local(r)
       IN  IF Count(f.pixels) = 0
           THEN Raise(r, Exc("ZeroDivisionError", "division by zero"))
           ELSE /\ frame' = [frame EXCEPT ![Frame(r)].avg_luminance =
                                RDiv(f.total_luminance, R(Count(f.pixels)))]
                /\ Goto(r, "map")
                /\ UNCHANGED <<request, result, logged>>

\* if avg_luminance < 30: ev = ... elif ... else: ev = ...
MapEV(r) ==
    /\ pc[r] = "map"
    /\ frame' = [frame EXCEPT ![Frame(r)].ev = EVMapper(Local(r).avg_luminance)]
    /\ Goto(r, "return")
    /\ UNCHANGED <<request, result, logged>>

\* logger.info(...); return {"avg_luminance": ..., "ev": ..., "pixel_count": ...}
Return(r) ==
    /\ pc[r] = "return"
    /\ LET f == Local(r)
       IN  /\ logged' = [logged EXCEPT ![r] =
                            <<"INFO", Round2(f.avg_luminance), Round2(f.ev)>>]
           /\ result' = [result EXCEPT ![r] =
                            [kind |-> "dict",
                             body |-> [avg_luminance |-> Round2(f.avg_luminance),
                                       ev |-> Round2(f.ev),
                                       pixel_count |-> Count(f.pixels)]]]
    /\ Goto(r, "done")
    /\ UNCHANGED <<request, frame>>

\* except Exception as e: logger.error(...); return {"error": str(e)}, 500
Except(r) ==
    /\ pc[r] = "except"
    /\ LET f == Local(r)
       IN  /\ logged' = [logged EXCEPT ![r] = <<"ERROR", f.e.msg>>]
           /\ result' = [result EXCEPT ![r] =
                            [kind |-> "tuple", body |-> [error |-> f.e.msg],
                             status |-> 500]]
    /\ Goto(r, "done")
    /\ UNCHANGED <<request, frame>>

\* A library call of the try block failing for want of a resource.
Fault(r) ==
    /\ pc[r] \in {"read", "open", "convert", "thumbnail", "getdata"}
    /\ Raise(r, Exc("MemoryError", ""))

Step(r) ==
    \/ Read(r)
    \/ Open(r)
    \/ Convert(r)
    \/ Thumbnail(r)
    \/ GetData(r)
    \/ InitTotal(r)
    \/ Loop(r)
    \/ Divide(r)
    \/ MapEV(r)
    \/ Return(r)
    \/ Except(r)
    \/ Fault(r)

\* Two invocations in flight, their statements interleaved.
Next == \E r \in Requests : Call(r, Inputs) \/ Step(r)

Spec == Init /\ [][Next]_vars

\* One invocation, over the luminance sweep.
NextSweep == Call("a", SweepInputs) \/ Step("a")

SpecSweep == Init /\ [][NextSweep]_vars

(* ----------------------------- properties ---------------------------- *)

\* avg_luminance of r has been assigned.
Averaged(r) ==
    \/ pc[r] \in {"map", "return"}
    \/ pc[r] = "done" /\ result[r].kind = "dict"

\* ev of r has been assigned.
Mapped(r) ==
    \/ pc[r] = "return"
    \/ pc[r] = "done" /\ result[r].kind = "dict"

\* r has returned the success dictionary.
Succeeded(r) == pc[r] = "done" /\ result[r].kind = "dict"

\* The row of the five-segment table that L falls in.
TableRow(L) ==
    CASE RLe(R(0), L) /\ RLt(L, R(30)) -> 1
      [] RLe(R(30), L) /\ RLt(L, R(60)) -> 2
      [] RLe(R(60), L) /\ RLt(L, R(120)) -> 3
      [] RLe(R(120), L) /\ RLt(L, R(180)) -> 4
      [] RLe(R(180), L) /\ RLe(L, R(255)) -> 5

\* e is the value row k of the table gives for L, with the divisions
\* multiplied out.
OnRow(k, L, e) ==
    CASE k = 1 -> RMul(R(30), RSub(e, R(2))) = RMul(R(4), L)
      [] k = 2 -> RMul(R(30), RSub(e, R(6))) = RMul(R(3), RSub(L, R(30)))
      [] k = 3 -> RMul(R(60), RSub(e, R(9))) = RMul(R(3), RSub(L, R(60)))
      [] k = 4 -> RMul(R(60), RSub(e, R(12))) = RMul(R(2), RSub(L, R(120)))
      [] k = 5 -> RMul(R(75), RSub(e, R(14))) = RMul(R(3), RSub(L, R(180)))

\* C1: for every average luminance L in [0,255] the EV the handler computes
\* is the value of the five-segment table at L, and the branch it takes is
\* the table's row, so that each of 30, 60, 120 and 180 is evaluated by the
\* segment it is the lower bound of.
C1_EVFollowsTable ==
    \A r \in Requests :
        Mapped(r) =>
            LET L == Local(r).avg_luminance
            IN  /\ RLe(R(0), L) /\ RLe(L, R(255))
                /\ Segment(L) = TableRow(L)
                /\ OnRow(TableRow(L), L, Local(r).ev)

C1_Witness ==
    /\ pc["a"] = "done"
    /\ result["a"].kind = "dict"
    /\ frame["a"].avg_luminance = R(30)
    /\ frame["a"].ev = R(6)

\* The luminances of the sweep.
Grid == {Norm(j, LumDen) : j \in 0..(255 * LumDen)}

\* C3: for all L1 < L2 in [0,255] the EV of L1 is at most the EV of L2,
\* whether or not the two lie in the same segment.  L1 is the average an
\* invocation has computed, L2 any luminance of the sweep.
C3_Monotone ==
    \A r \in Requests :
        Mapped(r) =>
            \A L2 \in Grid :
                RLt(Local(r).avg_luminance, L2)
                    => RLe(Local(r).ev, EVMapper(L2))

C3_Witness ==
    /\ pc["a"] = "return"
    /\ Segment(frame["a"].avg_luminance) = 3
    /\ RLt(R(60), frame["a"].avg_luminance)
    /\ RLt(R(9), frame["a"].ev)

\* C4: the mapping is continuous at every breakpoint: at 30, 60, 120 and
\* 180 the formula of the segment ending there and the formula of the
\* segment starting there both give the EV computed (6, 9, 12 and 14), and
\* the EV is 2 at 0 and 17 at 255.
C4_Continuous ==
    \A r \in Requests :
        Mapped(r) =>
            LET L == Local(r).avg_luminance
                e == Local(r).ev
                Meets(k, v) == /\ e = R(v)
                               /\ SegmentFormula(k, L) = R(v)
                               /\ SegmentFormula(k + 1, L) = R(v)
            IN  /\ L = R(0) => e = R(2)
                /\ L = R(30) => Meets(1, 6)
                /\ L = R(60) => Meets(2, 9)
                /\ L = R(120) => Meets(3, 12)
                /\ L = R(180) => Meets(4, 14)
                /\ L = R(255) => e = R(17)

C4_Witness ==
    /\ pc["a"] = "return"
    /\ frame["a"].avg_luminance = R(120)
    /\ frame["a"].ev = R(12)

\* C5: for every average luminance in [0,255] the EV computed lies in
\* [2,17], and so does the ev field of every success result.
C5_EVInRange ==
    \A r \in Requests :
        /\ Mapped(r) => RLe(R(2), Local(r).ev) /\ RLe(Local(r).ev, R(17))
        /\ Succeeded(r) =>
               /\ RLe(R(2), result[r].body.ev)
               /\ RLe(result[r].body.ev, R(17))

C5_Witness ==
    /\ Succeeded("a")
    /\ frame["a"].avg_luminance = R(255)
    /\ result["a"].body.ev = R(17)

\* Every sample of upload b is the gray (v, v, v), and there is one.
UniformGray(b, v) ==
    /\ b.valid
    /\ b.mode = "RGB"
    /\ b.data # <<>>
    /\ \A i \in 1..Len(b.data) : b.data[i][1] = Gray(v)

\* The value the table gives for L.
TableEV(L) == CHOOSE e \in {SegmentFormula(k, L) : k \in 1..5} :
                  OnRow(TableRow(L), L, e)

\* y is x rounded to 2 decimals: a multiple of 1/100 within 1/200 of x.
Rounds(x, y) ==
    /\ 100 % y[2] = 0
    /\ RLe(RSub(x, y), <<1, 200>>)
    /\ RLe(RSub(y, x), <<1, 200>>)

\* C8: for a non-empty image whose every pixel is the gray (v, v, v) the
\* handler returns avg_luminance v and ev the table's value for v rounded
\* to 2 decimals: 128.00 and 12.27 for v = 128, 0.00 and 2.00 for v = 0,
\* 255.00 and 17.00 for v = 255.
C8_UniformGray ==
    \A r \in Requests :
        Succeeded(r) =>
            \A v \in 0..255 :
                UniformGray(request[r], v) =>
                    /\ result[r].body.avg_luminance = R(v)
                    /\ Rounds(TableEV(R(v)), result[r].body.ev)
                    /\ v = 128 => result[r].body.ev = <<1227, 100>>
                    /\ v = 0 => result[r].body.ev = R(2)
                    /\ v = 255 => result[r].body.ev = R(17)

C8_Witness ==
    /\ Succeeded("a")
    /\ UniformGray(request["a"], 128)
    /\ result["a"].body.avg_luminance = R(128)
    /\ result["a"].body.ev = <<1227, 100>>

\* The handler's return value on failure with message m.
ErrorResult(m) == [kind |-> "tuple", body |-> [error |-> m], status |-> 500]

\* C2: when a step of the handler fails (the bytes are no image, the image
\* is empty, or any other exception is raised in the try block) the call
\* returns {error: message} paired with status 500, and no exception leaves
\* the handler.
C2_FailuresBecomeErrorResults ==
    \A r \in Requests :
        /\ pc[r] # "uncaught"
        /\ pc[r] = "done" =>
               /\ result[r].kind \in {"dict", "tuple"}
               /\ Local(r).e # NoExc => result[r] = ErrorResult(Local(r).e.msg)
               /\ ~request[r].valid => result[r].kind = "tuple"
               /\ Count(request[r].data) = 0 => result[r].kind = "tuple"
               /\ result[r].kind = "tuple" =>
                      /\ Local(r).e # NoExc
                      /\ result[r].status = 500
                      /\ DOMAIN result[r].body = {"error"}

C2_Witness ==
    /\ pc["a"] = "done"
    /\ request["a"] = Corrupt
    /\ frame["a"].e.type = "UnidentifiedImageError"
    /\ result["a"] = ErrorResult("cannot identify image file")
    /\ pc["b"] = "done"
    /\ frame["b"].e.type = "MemoryError"
    /\ result["b"].kind = "tuple"

\* C6: an empty pixel sequence is detected by an emptiness check made
\* before the division by the sample count, and reported as an
\* EmptyImageError: the division is never reached with no samples, and no
\* division by zero is raised for want of samples.
C6_EmptyCheckedBeforeDivision ==
    \A r \in Requests :
        /\ pc[r] = "divide" => Count(Local(r).pixels) > 0
        /\ (pc[r] \in {"except", "done"}
              /\ Local(r).e.type = "ZeroDivisionError")
               => ThumbnailRaises(Local(r).image)

\* C7: after the thumbnail step neither side of the image exceeds 200 and
\* an image that already fits 200 x 200 keeps its size; the pixel_count of
\* a success result is width * height of that image and at most 40,000.
C7_DownsampledWithinBound ==
    \A r \in Requests :
        /\ (pc[r] \in {"getdata", "init", "loop", "divide", "map", "return"}
              \/ Succeeded(r)) =>
               /\ Local(r).image.size[1] <= 200
               /\ Local(r).image.size[2] <= 200
               /\ (request[r].size[1] <= 200 /\ request[r].size[2] <= 200)
                      => Local(r).image.size = request[r].size
        /\ Succeeded(r) =>
               /\ result[r].body.pixel_count =
                      Local(r).image.size[1] * Local(r).image.size[2]
               /\ result[r].body.pixel_count <= 40000

C7_Witness ==
    /\ Succeeded("a")
    /\ request["a"].size = <<400, 400>>
    /\ result["a"].body.pixel_count = 40000
    /\ Succeeded("b")
    /\ request["b"].size = <<1000, 3>>
    /\ result["b"].body.pixel_count = 200

\* C9: two invocations on the same upload that both succeed return the same
\* avg_luminance, ev and pixel_count, however their statements and those of
\* other invocations interleave; neither has read what the other wrote.
C9_Deterministic ==
    \A r1, r2 \in Requests :
        (Succeeded(r1) /\ Succeeded(r2) /\ request[r1] = request[r2])
            => result[r1].body = result[r2].body

C9_Witness ==
    /\ Succeeded("a")
    /\ Succeeded("b")
    /\ request["a"] = request["b"]
    /\ Len(request["a"].data) = 2
    /\ result["a"].body.avg_luminance = <<255, 2>>
    /\ result["b"].body.avg_luminance = <<255, 2>>

\* C10: for every non-empty list of pixels with channels in [0,255] the
\* average luminance (the sum of 0.299 R + 0.587 G + 0.114 B over the
\* pixels, divided by their number) lies in [0,255], the domain of the EV
\* mapping.
C10_AverageInDomain ==
    \A r \in Requests :
        Averaged(r) =>
            /\ Count(Local(r).pixels) > 0
            /\ \A i \in 1..Len(Local(r).pixels) :
                   \A c \in 1..3 : Local(r).pixels[i][1][c] \in 0..255
            /\ RLe(R(0), Local(r).avg_luminance)
            /\ RLe(Local(r).avg_luminance, R(255))
            /\ RMul(Local(r).avg_luminance, R(Count(Local(r).pixels)))
                   = Local(r).total_luminance

C10_Witness ==
    /\ pc["a"] = "map"
    /\ frame["a"].pixels = << <<White, 1>>, << <<255, 0, 0>>, 1 >> >>
    /\ frame["a"].avg_luminance = <<66249, 400>>

====
